---- MODULE Spec2Model ----
(***************************************************************************)
(* Device-state validation (netbox/validate_device_state.py).              *)
(*                                                                         *)
(* Python dicts are TLA+ functions (records); dict.get(k, default) is Get. *)
(* Python None is the record None.  A text (stdout, stderr, an error       *)
(* message) is a sequence of lines, as output.split('\n') sees it; a line  *)
(* is a record that says which of the parser's regular expressions match   *)
(* it and what their groups capture.  Timestamps (collected_at,            *)
(* validated_at) are left out of the records.                              *)
(***************************************************************************)
EXTENDS Naturals, Sequences, FiniteSets, TLC

VARIABLES
    device_mapping,   \* DeviceValidator.device_mapping
    device_names,     \* validate_all_devices: the names taken from the inventory
    mainPc,           \* position of the thread that calls validate_all_devices
    worker,           \* per device: the state of the pool task validate_device(d)
    results,          \* DeviceValidator.results
    lock,             \* DeviceValidator.lock: the holder, or "free"
    ret,              \* what validate_all_devices returned, None before it does
    unit              \* the last direct call of one method: [op, in, out]

vars == <<device_mapping, device_names, mainPc, worker, results, lock, ret, unit>>

runVars == <<device_mapping, device_names, mainPc, worker, results, lock, ret>>

----------------------------------------------------------------------------
(* Bounds *)

\* longest text (in lines) a command returns in the direct method calls
MaxLines == 2

\* longest text (in lines) handed to the interface parser directly
MaxParseLines == 4

\* largest number of inventory devices whose name contains "Router-"
MaxDevices == 4

----------------------------------------------------------------------------
(* Python values *)

None == [py |-> "None"]

EmptyDict == [k \in {} |-> k]

Get(d, k, default) == IF k \in DOMAIN d THEN d[k] ELSE default

\* truth value of a dict-or-None
Truthy(v) == v # None /\ DOMAIN v # {}

----------------------------------------------------------------------------
(* Lines of text *)

\* kind "header": re.match(r'^\d+:\s+(\w+):\s+<([^>]+)>') matches; name is
\*   group 1, flags is group 2 split at its commas
\* kind "inet": 'inet ' is in the line and re.search(r'inet\s+([0-9./]+)')
\*   matches; addr is group 1
\* kind "inet_bad": 'inet ' is in the line and the address pattern fails
\* kind "other": neither (link/ether, inet6, an error message, "")
HeaderLine(name, flags) ==
    [kind |-> "header", name |-> name, flags |-> flags, addr |-> ""]

InetLine(addr) == [kind |-> "inet", name |-> "", flags |-> <<>>, addr |-> addr]

InetBadLine == [kind |-> "inet_bad", name |-> "", flags |-> <<>>, addr |-> ""]

OtherLine(text) == [kind |-> "other", name |-> text, flags |-> <<>>, addr |-> ""]

\* the lines of `ip addr show` the model draws from
IpAddrLines ==
    { HeaderLine("lo", <<"LOOPBACK", "UP", "LOWER_UP">>),
      HeaderLine("lo", <<"LOOPBACK">>),
      HeaderLine("eth0", <<"BROADCAST", "UP">>),
      InetLine("1.1.1.1/32"),
      InetLine("172.20.0.2/24"),
      InetBadLine,
      OtherLine("inet6 ::1/128 scope host") }

\* what docker writes to stderr when exec fails
StderrTexts ==
    { <<OtherLine("Error response from daemon: container is not running")>>,
      <<>> }

\* f"Error: {str(e)}" for the exception subprocess.run raised
ErrorText(e) == <<OtherLine("Error: " \o e)>>

SubprocessErrors == {"Command timed out after 30 seconds"}

RECURSIVE SeqsUpTo(_, _)
SeqsUpTo(S, n) ==
    IF n = 0 THEN {<<>>}
    ELSE LET shorter == SeqsUpTo(S, n - 1)
         IN  shorter \cup {Append(s, x) : s \in {t \in shorter : Len(t) = n - 1}, x \in S}

Texts == SeqsUpTo(IpAddrLines, MaxLines)

\* the lines the texts handed to the parser directly are made of
ParseInputLines ==
    { HeaderLine("lo", <<"LOOPBACK", "UP", "LOWER_UP">>),
      HeaderLine("eth0", <<"BROADCAST", "MULTICAST", "LOWER_UP">>),
      HeaderLine("eth0", <<"BROADCAST", "MULTICAST">>),
      InetLine("1.1.1.1/32"),
      InetLine("172.20.0.2/24"),
      InetBadLine,
      OtherLine("link/ether 02:42:ac:14:00:02") }

ParseTexts == SeqsUpTo(ParseInputLines, MaxParseLines)

----------------------------------------------------------------------------
(* parse_interface_output *)

\* 'UP' in flags: a substring test on the flag list, so any flag that
\* contains the letters UP satisfies it
FlagContainsUP(flag) == flag \in {"UP", "LOWER_UP"}

UpInFlags(flags) == \E i \in 1..Len(flags) : FlagContainsUP(flags[i])

\* re.match(r'^\d+:\s+(\w+):\s+<([^>]+)>', line.strip())
InterfaceMatch(line) == line.kind = "header"

\* 'inet ' in line
InetInLine(line) == line.kind \in {"inet", "inet_bad"}

\* re.search(r'inet\s+([0-9./]+)', line)
IpMatch(line) == line.kind = "inet"

\* the loop body with an address appended to every interface seen so far
\* instead of the current one
ParseLine_AppendToAll(st, line) ==
    LET afterHeader ==
            IF InterfaceMatch(line)
            THEN [interfaces |->
                      [n \in DOMAIN st.interfaces \cup {line.name} |->
                          IF n = line.name
                          THEN [name |-> line.name,
                                status |-> IF UpInFlags(line.flags) THEN "UP" ELSE "DOWN",
                                addresses |-> <<>>]
                          ELSE st.interfaces[n]],
                  current |-> line.name]
            ELSE st
    IN  IF afterHeader.current # "" /\ InetInLine(line) /\ IpMatch(line)
        THEN [afterHeader EXCEPT !.interfaces =
                 [n \in DOMAIN @ |-> [@[n] EXCEPT !.addresses = Append(@, line.addr)]]]
        ELSE afterHeader

\* one iteration of the loop body on the scanner state [interfaces, current];
\* current = "" is current_interface = None
ParseLine(st, line) ==
    LET afterHeader ==
            IF InterfaceMatch(line)
            THEN [interfaces |->
                      [n \in DOMAIN st.interfaces \cup {line.name} |->
                          IF n = line.name
                          THEN [name |-> line.name,
                                status |-> IF UpInFlags(line.flags) THEN "UP" ELSE "DOWN",
                                addresses |-> <<>>]
                          ELSE st.interfaces[n]],
                  current |-> line.name]
            ELSE st
    IN  IF afterHeader.current # "" /\ InetInLine(line)
        THEN IF IpMatch(line)
             THEN [afterHeader EXCEPT
                      !.interfaces[afterHeader.current].addresses = Append(@, line.addr)]
             ELSE afterHeader
        ELSE afterHeader

RECURSIVE ParseLines(_, _)
ParseLines(st, text) ==
    IF text = <<>> THEN st
    ELSE ParseLines(ParseLine(st, Head(text)), Tail(text))

parse_interface_output(output) ==
    ParseLines([interfaces |-> EmptyDict, current |-> ""], output).interfaces

----------------------------------------------------------------------------
(* get_netbox_device_state *)

DeclaredFields == {"bgp_asn", "loopback_ip", "ospf_router_id", "ospf_area"}

\* the values the inventory declares, when it declares them
Declared ==
    [bgp_asn |-> "65001", loopback_ip |-> "1.1.1.1/32",
     ospf_router_id |-> "1.1.1.1", ospf_area |-> "10"]

\* the custom_fields objects of a device record
CustomFieldSets == {[f \in S |-> Declared[f]] : S \in SUBSET DeclaredFields}

\* a device record of the inventory API: name, and optionally custom_fields
\* and primary_ip4 (null or an address object)
DeviceRecords(name) ==
    LET base == [k \in {"name"} |-> name]
        withCf == {base} \cup {base @@ [k \in {"custom_fields"} |-> cf] : cf \in CustomFieldSets}
        ips == {None, [address |-> "10.0.0.1/24"]}
    IN  withCf \cup {r @@ [k \in {"primary_ip4"} |-> ip] : r \in withCf, ip \in ips}

\* what requests.get(...) / raise_for_status() / .json() come to: an
\* exception, or the 'results' list of the answer
RequestErrors == {"timeout", "connection_error", "http_error"}

ErrorResponse(e) == [kind |-> "error", err |-> e, results |-> <<>>]

OkResponse(recs) == [kind |-> "ok", err |-> "", results |-> recs]

DeviceResponses(name) ==
    {ErrorResponse(e) : e \in RequestErrors}
        \cup {OkResponse(<<>>)}
        \cup {OkResponse(<<r>>) : r \in DeviceRecords(name)}

\* IntendedOf with the ASN looked up without its default, which C9 must reject
IntendedOf_NoAsnDefault(device) ==
    LET cf == Get(device, "custom_fields", EmptyDict)
    IN  [device_name |-> device["name"],
         bgp_asn |-> Get(cf, "bgp_asn", ""),
         loopback_ip |-> Get(cf, "loopback_ip", "Unknown"),
         ospf_router_id |-> Get(cf, "ospf_router_id", "Unknown"),
         ospf_area |-> Get(cf, "ospf_area", "0"),
         primary_ip |->
             IF Truthy(Get(device, "primary_ip4", None))
             THEN Get(Get(device, "primary_ip4", EmptyDict), "address", "Unknown")
             ELSE "Unknown"]

\* lines 111-118
IntendedOf(device) ==
    LET cf == Get(device, "custom_fields", EmptyDict)
    IN  [device_name |-> device["name"],
         bgp_asn |-> Get(cf, "bgp_asn", "Unknown"),
         loopback_ip |-> Get(cf, "loopback_ip", "Unknown"),
         ospf_router_id |-> Get(cf, "ospf_router_id", "Unknown"),
         ospf_area |-> Get(cf, "ospf_area", "0"),
         primary_ip |->
             IF Truthy(Get(device, "primary_ip4", None))
             THEN Get(Get(device, "primary_ip4", EmptyDict), "address", "Unknown")
             ELSE "Unknown"]

get_netbox_device_state(device_name, response) ==
    IF response.kind = "error" THEN None          \* except Exception: return None
    ELSE IF response.results = <<>> THEN None     \* if not devices: return None
    ELSE IntendedOf(response.results[1])

----------------------------------------------------------------------------
(* get_container_mappings, get_device_connection_params *)

Containers == [i \in 1..3 |-> <<"R1", "R2", "R3">>[i]]

MappedNames == [i \in 1..3 |-> <<"Router-1", "Router-2", "Router-3">>[i]]

\* the position of a known device in the lists of lines 40-41
IndexOf(name) == CHOOSE i \in 1..3 : MappedNames[i] = name

ContainerIp == [i \in 1..3 |-> <<"172.20.0.2", "172.20.0.3", "172.20.0.4">>[i]]

\* what subprocess.run(['docker', 'inspect', ...], timeout=10) comes to; stdout
\* is the sequence of its tokens: one address at most, blanks and newlines
InspectExit(rc, out) ==
    [kind |-> "exit", returncode |-> rc, stdout |-> out, exc |-> ""]

InspectRaise(e) == [kind |-> "raise", returncode |-> 0, stdout |-> <<>>, exc |-> e]

Whitespace == {" ", "\n"}

InspectStdouts(i) ==
    {<<>>, <<"\n">>, <<" ", "\n">>, <<ContainerIp[i], "\n">>, <<" ", ContainerIp[i], "\n">>}

InspectOutcomes(i) ==
    {InspectExit(0, out) : out \in InspectStdouts(i)}
        \cup {InspectExit(1, out) : out \in {<<>>, <<"\n">>, <<ContainerIp[i], "\n">>}}
        \cup {InspectRaise(e) : e \in {"timed out after 10 seconds", "No such file: docker"}}

RECURSIVE LStrip(_)
LStrip(s) == IF s # <<>> /\ Head(s) \in Whitespace THEN LStrip(Tail(s)) ELSE s

RECURSIVE RStrip(_)
RStrip(s) ==
    IF s # <<>> /\ s[Len(s)] \in Whitespace THEN RStrip(SubSeq(s, 1, Len(s) - 1)) ELSE s

\* str.strip()
Strip(s) == RStrip(LStrip(s))

\* line 52 when only the exit code is looked at
InspectGaveAddress_ExitCodeOnly(proc) == proc.returncode = 0

\* line 52: result.returncode == 0 and result.stdout.strip()
InspectGaveAddress(proc) == proc.returncode = 0 /\ Strip(proc.stdout) # <<>>

\* lines 53-58: inspection gave an address
SshInfo(i, stripped) ==
    [container |-> Containers[i],
     ip |-> IF stripped = <<>> THEN "" ELSE stripped[1],
     connection_type |-> "ssh"]

\* lines 62-66 and 72-76: inspection failed, gave nothing, or raised
DockerExecInfo(i) ==
    [container |-> Containers[i], ip |-> Containers[i], connection_type |-> "docker_exec"]

\* inspected[i] is what docker inspect of container i came to
get_container_mappings(inspected) ==
    [n \in {MappedNames[i] : i \in 1..3} |->
        LET i == CHOOSE j \in 1..3 : MappedNames[j] = n
            proc == inspected[i]
        IN  IF proc.kind = "raise" THEN DockerExecInfo(i)
            ELSE IF InspectGaveAddress(proc) THEN SshInfo(i, Strip(proc.stdout))
            ELSE DockerExecInfo(i)]

get_device_connection_params(mapping, device_name) ==
    LET device_info == Get(mapping, device_name, None)
    IN  IF device_info = None THEN None
        ELSE [device_type |-> "linux",
              host |-> IF device_info.connection_type = "ssh"
                       THEN device_info.ip ELSE device_info.container,
              username |-> "root", password |-> "cisco123",
              timeout |-> 20, session_timeout |-> 60]

----------------------------------------------------------------------------
(* execute_docker_command, get_device_actual_state_docker, get_device_actual_state *)

\* what subprocess.run(['docker', 'exec', ...], timeout=30) comes to
ExitOutcome(rc, out, err) ==
    [kind |-> "exit", returncode |-> rc, stdout |-> out, stderr |-> err, exc |-> ""]

RaiseOutcome(e) ==
    [kind |-> "raise", returncode |-> 0, stdout |-> <<>>, stderr |-> <<>>, exc |-> e]

ExecFailures ==
    {ExitOutcome(1, <<>>, t) : t \in StderrTexts}
        \cup {RaiseOutcome(e) : e \in SubprocessErrors}

ExecOutcomes(texts) == {ExitOutcome(0, t, <<>>) : t \in texts} \cup ExecFailures

execute_docker_command(container_name, command, proc) ==
    IF proc.kind = "raise" THEN ErrorText(proc.exc)
    ELSE IF proc.returncode = 0 THEN proc.stdout ELSE proc.stderr

\* lines 181-184 and 257-260
LoopbackIp(interfaces) ==
    IF "lo" \in DOMAIN interfaces /\ interfaces["lo"].addresses # <<>>
    THEN interfaces["lo"].addresses[1]
    ELSE "Unknown"

\* lines 186-195 and 262-271
ConnectedState(device_name, bgp_asn, interfaces, method) ==
    [device_name |-> device_name,
     bgp_asn |-> bgp_asn,
     bgp_router_id |-> "Unknown",
     loopback_ip |-> LoopbackIp(interfaces),
     interfaces |-> interfaces,
     connection_status |-> "Connected",
     connection_method |-> method]

\* lines 202-208
FailedState(device_name, e) ==
    [device_name |-> device_name,
     connection_status |-> "Failed",
     connection_method |-> "docker_exec",
     error |-> e]

\* fault is the message of an exception raised inside the try block (lines
\* 168-198), "" when there is none
get_device_actual_state_docker(device_name, device_info, proc, fault) ==
    IF fault # "" THEN FailedState(device_name, fault)
    ELSE LET interfaces_output ==
                 execute_docker_command(device_info.container, "ip addr show", proc)
             interfaces == parse_interface_output(interfaces_output)
         IN  ConnectedState(device_name,
                            Get(device_info, "expected_bgp_asn", "Unknown"),
                            interfaces, "docker_exec")

\* what `with ConnectHandler(**connection_params) as conn:
\* conn.send_command('ip addr show')` comes to
SshOk(text) == [kind |-> "ok", output |-> text, exc |-> ""]

SshRaise(e) == [kind |-> "raise", output |-> <<>>, exc |-> e]

SshFailures == {SshRaise(e) : e \in {"timeout", "authentication", "refused"}}

\* get_device_actual_state reporting a failed session outright instead of
\* falling back, which C7 must reject
get_device_actual_state_NoFallback(device_name, connection_params, device_info, ssh, proc, fault) ==
    IF Get(device_info, "connection_type", "") = "docker_exec"
    THEN get_device_actual_state_docker(device_name, device_info, proc, fault)
    ELSE IF ssh.kind = "ok"
    THEN ConnectedState(device_name, "Unknown",
                        parse_interface_output(ssh.output), "ssh")
    ELSE [device_name |-> device_name,
          connection_status |-> "Failed",
          connection_method |-> "ssh",
          error |-> ssh.exc]

get_device_actual_state(device_name, connection_params, device_info, ssh, proc, fault) ==
    IF Get(device_info, "connection_type", "") = "docker_exec"
    THEN get_device_actual_state_docker(device_name, device_info, proc, fault)
    ELSE IF ssh.kind = "ok"
    THEN ConnectedState(device_name, "Unknown",
                        parse_interface_output(ssh.output), "ssh")
    ELSE get_device_actual_state_docker(device_name, device_info, proc, fault)

----------------------------------------------------------------------------
(* compare_device_state *)

\* lines 284-291
UnreachableResult(device_name, actual) ==
    [device |-> device_name,
     status |-> "Unreachable",
     connection_status |-> Get(actual, "connection_status", "Unknown"),
     connection_method |-> Get(actual, "connection_method", "Unknown"),
     error |-> Get(actual, "error", "Unknown error"),
     checks |-> EmptyDict]

\* LoopbackCheck with a down loopback left as Passed, which C4 must reject
LoopbackCheck_DownPasses(actual) ==
    LET lo_interface == Get(Get(actual, "interfaces", EmptyDict), "lo", EmptyDict)
    IN  IF DOMAIN lo_interface # {}
        THEN IF Get(lo_interface, "status", "") = "UP"
             THEN [check |-> [status |-> "Up", details |-> lo_interface],
                   overall |-> "Passed"]
             ELSE [check |-> [status |-> "Down", details |-> lo_interface],
                   overall |-> "Passed"]
        ELSE [check |-> [status |-> "Not Found", details |-> EmptyDict],
              overall |-> "Passed"]

\* lines 297-305: the loopback check and the overall status it leaves
LoopbackCheck(actual) ==
    LET lo_interface == Get(Get(actual, "interfaces", EmptyDict), "lo", EmptyDict)
    IN  IF DOMAIN lo_interface # {}
        THEN IF Get(lo_interface, "status", "") = "UP"
             THEN [check |-> [status |-> "Up", details |-> lo_interface],
                   overall |-> "Passed"]
             ELSE [check |-> [status |-> "Down", details |-> lo_interface],
                   overall |-> "Failed"]
        ELSE [check |-> [status |-> "Not Found", details |-> EmptyDict],
              overall |-> "Passed"]

\* the checks with the declared ASN compared against the collected one
CheckedResult_AsnGated(device_name, intended, actual) ==
    LET lo == LoopbackCheck(actual)
        method == Get(actual, "connection_method", "Unknown")
    IN  [device |-> device_name,
         status |-> IF intended.bgp_asn # Get(actual, "bgp_asn", "Unknown")
                    THEN "Failed" ELSE lo.overall,
         connection_status |-> "Connected",
         connection_method |-> method,
         checks |-> [loopback_interface |-> lo.check,
                     connectivity |-> [status |-> "Connected", method |-> method]],
         intended_state |-> intended,
         actual_state |-> actual]

\* lines 293-322: the checks of a collected state
CheckedResult(device_name, intended, actual) ==
    LET lo == LoopbackCheck(actual)
        method == Get(actual, "connection_method", "Unknown")
    IN  [device |-> device_name,
         status |-> lo.overall,
         connection_status |-> "Connected",
         connection_method |-> method,
         checks |-> [loopback_interface |-> lo.check,
                     connectivity |-> [status |-> "Connected", method |-> method]],
         intended_state |-> intended,
         actual_state |-> actual]

\* compare_device_state without the short circuit on the connection outcome,
\* which C2 must reject
compare_device_state_NoShortCircuit(device_name, intended, actual) ==
    CheckedResult(device_name, intended, actual)

compare_device_state(device_name, intended, actual) ==
    IF Get(actual, "connection_status", "") # "Connected"
    THEN UnreachableResult(device_name, actual)
    ELSE CheckedResult(device_name, intended, actual)

\* a comparator that takes the interface table out of the actual state
ArgumentsAfter_InterfacesPopped(intended, actual) ==
    [intended |-> intended,
     actual |-> [k \in DOMAIN actual \ {"interfaces"} |-> actual[k]]]

\* lines 281-322: the two dicts as compare_device_state leaves them; it reads
\* them with .get and stores nothing into either
ArgumentsAfter(intended, actual) == [intended |-> intended, actual |-> actual]

----------------------------------------------------------------------------
(* validate_device: lines 326-344, everything before the lock is taken *)

\* the outcomes of the external calls one validate_device makes
CallOutcomes(response, ssh, proc, fault) ==
    [response |-> response, ssh |-> ssh, proc |-> proc, fault |-> fault]

\* comparison_result, or None where the method returns early (332, 338)
ValidateDeviceResult(mapping, device_name, env) ==
    LET intended_state == get_netbox_device_state(device_name, env.response)
        connection_params == get_device_connection_params(mapping, device_name)
    IN  IF ~Truthy(intended_state) THEN None
        ELSE IF ~Truthy(connection_params) THEN None
        ELSE compare_device_state(
                 device_name, intended_state,
                 get_device_actual_state(device_name, connection_params,
                                         mapping[device_name],
                                         env.ssh, env.proc, env.fault))

----------------------------------------------------------------------------
(* The validation run: validate_all_devices and its pool of validate_device *)

\* ThreadPoolExecutor(max_workers=3)
MaxWorkers == 3

RouterNames ==
    <<"Router-1", "Router-2", "Router-3", "Router-4", "Router-5", "Router-6">>

\* 'Router-' in device['name']
IsRouterName(n) == \E i \in 1..Len(RouterNames) : RouterNames[i] = n

\* what get_netbox_devices returns: [] on any exception (line 92), else the
\* device list: the first k routers, with or without the switch
InventoryLists ==
    {<<>>} \cup {SubSeq(RouterNames, 1, k) \o sw :
                    k \in 0..MaxDevices, sw \in {<<>>, <<"Switch-1">>}}

RECURSIVE SelectRouters(_)
SelectRouters(names) ==
    IF names = <<>> THEN <<>>
    ELSE (IF IsRouterName(Head(names)) THEN <<Head(names)>> ELSE <<>>)
             \o SelectRouters(Tail(names))

\* a call that is not made
NoSsh == [kind |-> "none", output |-> <<>>, exc |-> ""]

NoExec == [kind |-> "none", returncode |-> 0, stdout |-> <<>>, stderr |-> <<>>, exc |-> ""]

\* the outcomes of the calls one collection makes for a device with this
\* mapping entry: the session (ssh entries only), then the docker exec if the
\* session is not tried or fails, or a fault in the docker collector
CollectionOutcomes(device_info, sshs, execs, faults) ==
    LET indirect(s) ==
            {[ssh |-> s, proc |-> p, fault |-> ""] : p \in execs}
                \cup {[ssh |-> s, proc |-> NoExec, fault |-> f] : f \in faults}
    IN  IF device_info.connection_type = "docker_exec" THEN indirect(NoSsh)
        ELSE {[ssh |-> s, proc |-> NoExec, fault |-> ""] : s \in {x \in sshs : x.kind = "ok"}}
                 \cup UNION {indirect(s) : s \in {x \in sshs : x.kind = "raise"}}

\* the outcomes of the external calls the run draws from
RunTexts ==
    { <<HeaderLine("lo", <<"LOOPBACK", "UP", "LOWER_UP">>), InetLine("1.1.1.1/32")>> }

FullRecord(name) ==
    [name |-> name, custom_fields |-> Declared, primary_ip4 |-> None]

RunResponses(name) ==
    {ErrorResponse("timeout"), OkResponse(<<>>), OkResponse(<<FullRecord(name)>>)}

RunSsh == {SshOk(t) : t \in RunTexts} \cup {SshRaise("timeout")}

RunExec ==
    {ExitOutcome(0, t, <<>>) : t \in RunTexts}
        \cup {ExitOutcome(1, <<>>, <<OtherLine("Error response from daemon: container is not running")>>),
              RaiseOutcome("Command timed out after 30 seconds")}

RunFaults == {"fault in collection"}

\* what the fetch came to: "error", "zero" records, or a "record"
FetchKind(response) ==
    IF response.kind = "error" THEN "error"
    ELSE IF response.results = <<>> THEN "zero" ELSE "record"

\* how the actual state was collected: "none" (not attempted), "ssh",
\* "exec_ok" (docker exec exited 0), "exec_failed" (it exited non-zero or
\* timed out), "fault" (the exception handler of the docker collector ran)
CollectKind(mapping, device_name, env, res) ==
    IF res = None THEN "none"
    ELSE IF mapping[device_name].connection_type = "ssh" /\ env.ssh.kind = "ok" THEN "ssh"
    ELSE IF env.fault # "" THEN "fault"
    ELSE IF env.proc.kind = "exit" /\ env.proc.returncode = 0 THEN "exec_ok"
    ELSE "exec_failed"

Task(pc, result, fetch, collect) ==
    [pc |-> pc, result |-> result, fetch |-> fetch, collect |-> collect]

Names == {device_names[i] : i \in 1..Len(device_names)}

Busy == {d \in Names : worker[d].pc \in {"running", "store", "locked"}}

\* the first name of the list whose task is at pc, 0 if there is none
FirstAt(pc) ==
    LET S == {i \in 1..Len(device_names) : worker[device_names[i]].pc = pc}
    IN  IF S = {} THEN 0 ELSE CHOOSE i \in S : \A j \in S : i <= j

\* what the three inspections of the constructor come to, in the runs checked:
\* an address for R1 and R3 and a timeout for R2
InspectionOutcomes ==
    {<<InspectExit(0, <<ContainerIp[1], "\n">>),
       InspectRaise("timed out after 10 seconds"),
       InspectExit(0, <<ContainerIp[3], "\n">>)>>}

Idle == [op |-> "none", in |-> EmptyDict, out |-> EmptyDict]

\* __init__: lines 23-34
InitValidator ==
    /\ \E inspected \in InspectionOutcomes :
           device_mapping = get_container_mappings(inspected)
    /\ device_names = <<>>
    /\ mainPc = "start"
    /\ worker = EmptyDict
    /\ results = EmptyDict
    /\ lock = "free"
    /\ ret = None

Init == InitValidator /\ unit = Idle

\* lines 354-364: list the devices, keep the routers, return {} if none
FetchDevices ==
    /\ mainPc = "start"
    /\ \E listed \in InventoryLists :
           LET names == SelectRouters(listed)
           IN  /\ device_names' = names
               /\ worker' = [d \in {names[i] : i \in 1..Len(names)} |->
                                Task("unsubmitted", None, "", "")]
               /\ IF names = <<>>
                  THEN mainPc' = "returned" /\ ret' = EmptyDict
                  ELSE mainPc' = "submitting" /\ ret' = ret
    /\ UNCHANGED <<device_mapping, results, lock, unit>>

\* lines 368-369: executor.submit for the next device name
Submit ==
    /\ mainPc = "submitting"
    /\ LET i == FirstAt("unsubmitted")
       IN  /\ worker' = [worker EXCEPT ![device_names[i]].pc = "queued"]
           /\ mainPc' = IF i = Len(device_names) THEN "waiting" ELSE "submitting"
    /\ UNCHANGED <<device_mapping, device_names, results, lock, ret, unit>>

\* a pool that starts a thread for every queued task
Start_NoCap(d) ==
    /\ worker[d].pc = "queued"
    /\ device_names[FirstAt("queued")] = d
    /\ worker' = [worker EXCEPT ![d].pc = "running"]
    /\ UNCHANGED <<device_mapping, device_names, mainPc, results, lock, ret, unit>>

\* a pool thread takes the oldest queued task
Start(d) ==
    /\ worker[d].pc = "queued"
    /\ Cardinality(Busy) < MaxWorkers
    /\ device_names[FirstAt("queued")] = d
    /\ worker' = [worker EXCEPT ![d].pc = "running"]
    /\ UNCHANGED <<device_mapping, device_names, mainPc, results, lock, ret, unit>>

\* lines 326-344: fetch, connection parameters, collection, comparison
Validate(d) ==
    /\ worker[d].pc = "running"
    /\ \E response \in RunResponses(d) :
       \E c \in IF FetchKind(response) = "record" /\ d \in DOMAIN device_mapping
                THEN CollectionOutcomes(device_mapping[d], RunSsh, RunExec, RunFaults)
                ELSE {[ssh |-> NoSsh, proc |-> NoExec, fault |-> ""]} :
           LET env == CallOutcomes(response, c.ssh, c.proc, c.fault)
               res == ValidateDeviceResult(device_mapping, d, env)
           IN  worker' = [worker EXCEPT ![d] =
                   Task(IF res = None THEN "done" ELSE "store", res,
                        FetchKind(response),
                        CollectKind(device_mapping, d, env, res))]
    /\ UNCHANGED <<device_mapping, device_names, mainPc, results, lock, ret, unit>>

\* an exception escapes validate_device before the lock is taken; the future
\* keeps it, and future.result() raises it in the as_completed loop
WorkerRaises(d) ==
    /\ worker[d].pc = "running"
    /\ worker' = [worker EXCEPT ![d] = Task("raised", None, "", "")]
    /\ UNCHANGED <<device_mapping, device_names, mainPc, results, lock, ret, unit>>

\* line 347 without the lock being waited for
Acquire_NoLock(d) ==
    /\ worker[d].pc = "store"
    /\ lock' = d
    /\ worker' = [worker EXCEPT ![d].pc = "locked"]
    /\ UNCHANGED <<device_mapping, device_names, mainPc, results, ret, unit>>

\* line 347: with self.lock
Acquire(d) ==
    /\ worker[d].pc = "store"
    /\ lock = "free"
    /\ lock' = d
    /\ worker' = [worker EXCEPT ![d].pc = "locked"]
    /\ UNCHANGED <<device_mapping, device_names, mainPc, results, ret, unit>>

\* a store keyed by the order of arrival: the k-th result that comes in is
\* written under the k-th name of the list
Store_KeyedByArrival(d) ==
    /\ worker[d].pc = "locked"
    /\ lock = d
    /\ LET key == device_names[Cardinality(DOMAIN results) + 1]
       IN  results' = [k \in DOMAIN results \cup {key} |->
                          IF k = key THEN worker[d].result ELSE results[k]]
    /\ lock' = "free"
    /\ worker' = [worker EXCEPT ![d].pc = "done"]
    /\ UNCHANGED <<device_mapping, device_names, mainPc, ret, unit>>

\* lines 348-350: the insert, the release, the return
Store(d) ==
    /\ worker[d].pc = "locked"
    /\ lock = d
    /\ results' = [k \in DOMAIN results \cup {d} |->
                      IF k = d THEN worker[d].result ELSE results[k]]
    /\ lock' = "free"
    /\ worker' = [worker EXCEPT ![d].pc = "done"]
    /\ UNCHANGED <<device_mapping, device_names, mainPc, ret, unit>>

\* the loop of lines 371-380 without the except clause of line 381: the
\* exception of a worker leaves validate_all_devices
Join_Propagate(d) ==
    /\ mainPc = "waiting"
    /\ worker[d].pc \in {"done", "raised"}
    /\ worker' = [worker EXCEPT ![d] = Task("joined", None, "", "")]
    /\ mainPc' = IF worker[d].pc = "raised" THEN "failed" ELSE mainPc
    /\ UNCHANGED <<device_mapping, device_names, results, lock, ret, unit>>

\* lines 371-382: the as_completed loop takes a finished future, prints its
\* result, or the exception it raised (except Exception, line 381)
Join(d) ==
    /\ mainPc = "waiting"
    /\ worker[d].pc \in {"done", "raised"}
    /\ worker' = [worker EXCEPT ![d] =
                      Task(IF worker[d].pc = "raised" THEN "caught" ELSE "joined",
                           None, "", "")]
    /\ UNCHANGED <<device_mapping, device_names, mainPc, results, lock, ret, unit>>

\* the main thread has taken the future of d out of the as_completed loop
Taken(d) == worker[d].pc \in {"joined", "caught"}

\* line 384 read before the loop over the futures has ended
Return_NoWait ==
    /\ mainPc = "waiting"
    /\ mainPc' = "returned"
    /\ ret' = results
    /\ UNCHANGED <<device_mapping, device_names, worker, results, lock, unit>>

\* line 384, after the with block has shut the pool down
Return ==
    /\ mainPc = "waiting"
    /\ \A d \in Names : Taken(d)
    /\ mainPc' = "returned"
    /\ ret' = results
    /\ UNCHANGED <<device_mapping, device_names, worker, results, lock, unit>>

Next ==
    \/ FetchDevices
    \/ Submit
    \/ \E d \in Names : Start(d)
    \/ \E d \in Names : Validate(d)
    \/ \E d \in Names : WorkerRaises(d)
    \/ \E d \in Names : Acquire(d)
    \/ \E d \in Names : Store(d)
    \/ \E d \in Names : Join(d)
    \/ Return

Spec == Init /\ [][Next]_vars

----------------------------------------------------------------------------
(* The health monitor (monitor_devices.py): NetworkMonitor.  It is modelled *)
(* on the same variables: device_mapping, results and lock are its fields,  *)
(* worker holds one task per device and the infrastructure check's locals.  *)

\* line 390
MonitorMaxWorkers == 4

\* lines 34-38
MonitorMapping ==
    [n \in {MappedNames[i] : i \in 1..3} |->
        [container |-> Containers[CHOOSE j \in 1..3 : MappedNames[j] = n]]]

\* what the requests of netbox_api_check come to: both answered, or the
\* exception one of them raised
NetboxOutcomes == {"ok", "Timeout", "ConnectionError", "HTTPError", "ValueError"}

\* lines 193-250
netbox_api_check(outcome) ==
    [status |-> CASE outcome = "ok" -> "up"
                  [] outcome = "Timeout" -> "timeout"
                  [] outcome = "ConnectionError" -> "connection_error"
                  [] outcome = "HTTPError" -> "http_error"
                  [] OTHER -> "error"]

\* what `docker system info --format json` comes to: its exit status and
\* whether stdout parses as JSON, or the exception subprocess.run raised
SystemExit(rc, json) == [kind |-> "exit", returncode |-> rc, json |-> json]

SystemRaise == [kind |-> "raise", returncode |-> 0, json |-> FALSE]

DockerSystemOutcomes ==
    {SystemExit(rc, j) : rc \in {0, 1}, j \in BOOLEAN} \cup {SystemRaise}

\* lines 339-362
docker_system_check(proc) ==
    [status |-> IF proc.kind = "exit" /\ proc.returncode = 0 /\ proc.json
                THEN "up" ELSE "error"]

\* lines 365-369 with `or` in place of `and`
InfraUp_Either(netbox_check, docker_check) ==
    netbox_check.status = "up" \/ docker_check.status = "up"

\* lines 365-368
InfraUp(netbox_check, docker_check) ==
    netbox_check.status = "up" /\ docker_check.status = "up"

\* lines 329-369: the infrastructure_result written at line 372
monitor_infrastructure(outcome, proc) ==
    LET netbox_check == netbox_api_check(outcome)
        docker_check == docker_system_check(proc)
    IN  [checks |-> [netbox_api |-> netbox_check, docker_system |-> docker_check],
         overall_status |-> IF InfraUp(netbox_check, docker_check) THEN "up" ELSE "down"]

\* lines 99-167: what the docker ps / docker inspect calls come to
ContainerOutcomes == {"listed", "listed_stopped", "absent", "timeout", "bad_json", "raise"}

docker_container_check(outcome) ==
    [status |-> CASE outcome = "listed" -> "running"
                  [] outcome = "listed_stopped" -> "stopped"
                  [] outcome = "absent" -> "not_found"
                  [] outcome = "timeout" -> "timeout"
                  [] outcome = "bad_json" -> "stopped"
                  [] OTHER -> "error"]

\* lines 169-191
docker_exec_test(proc) ==
    [status |-> IF proc.kind = "raise" THEN "error"
                ELSE IF proc.returncode = 0 THEN "success" ELSE "failed"]

\* a Python str where None is possible too
Str(s) == [py |-> "str", value |-> s]

\* lines 40-53
get_container_ip(proc) ==
    IF proc.kind = "raise" THEN None
    ELSE IF proc.returncode = 0 /\ Strip(proc.stdout) # <<>>
         THEN Str(Strip(proc.stdout)[1])
    ELSE None

\* lines 55-82
ping_container_ip(container_ip, proc) ==
    [status |-> IF proc.kind = "raise" THEN "error"
                ELSE IF proc.returncode = 0 THEN "up" ELSE "down",
     ip |-> container_ip]

SkippedCheck == [status |-> "skipped"]

\* device_up asking for an answered ping as well
DeviceUp_PingGates(checks) ==
    /\ checks.container.status = "running"
    /\ checks.docker_exec.status = "success"
    /\ checks.ping.status = "up"

\* lines 307-310
DeviceUp(checks) ==
    checks.container.status = "running" /\ checks.docker_exec.status = "success"

\* lines 252-313: env holds what the external calls of the checks come to
monitor_device(mapping, device_name, env) ==
    LET device_info == Get(mapping, device_name, None)
    IN  IF ~Truthy(device_info)
        THEN [device |-> device_name, status |-> "unknown_device"]
        ELSE LET container_check == docker_container_check(env.container)
                 running == container_check.status = "running"
                 exec_check == IF running THEN docker_exec_test(env.exec)
                               ELSE SkippedCheck
                 container_ip == IF running THEN get_container_ip(env.inspect) ELSE None
                 ping_check == IF ~running THEN SkippedCheck
                               ELSE IF container_ip # None
                                    THEN ping_container_ip(container_ip.value, env.ping)
                               ELSE [status |-> "no_ip"]
                 checks == [container |-> container_check,
                            docker_exec |-> exec_check,
                            ping |-> ping_check]
             IN  [device |-> device_name,
                  container |-> device_info.container,
                  checks |-> checks,
                  overall_status |-> IF DeviceUp(checks) THEN "up" ELSE "down",
                  container_ip |-> container_ip]

\* the outcomes of the external calls the monitor's runs draw from
MonitorEnv(container, exec, inspect, ping) ==
    [container |-> container, exec |-> exec, inspect |-> inspect, ping |-> ping]

NoPing == ExitOutcome(0, <<>>, <<>>)

MonitorRunOutcomes(i) ==
    {MonitorEnv("listed", ExitOutcome(0, <<>>, <<>>),
                InspectExit(0, <<ContainerIp[i], "\n">>), ExitOutcome(0, <<>>, <<>>)),
     MonitorEnv("listed", ExitOutcome(1, <<>>, <<>>),
                InspectExit(0, <<"\n">>), NoPing),
     MonitorEnv("listed_stopped", NoExec, InspectRaise(""), NoPing),
     MonitorEnv("timeout", NoExec, InspectRaise(""), NoPing)}

MonitorRunNetbox == {"ok", "ConnectionError"}

MonitorRunSystem == {SystemExit(0, TRUE), SystemExit(1, FALSE), SystemRaise}

\* __init__: lines 23-38
InitMonitorObject ==
    /\ device_mapping = MonitorMapping
    /\ device_names = <<>>
    /\ mainPc = "start"
    /\ worker = EmptyDict
    /\ results = EmptyDict
    /\ lock = "free"
    /\ ret = None

InitMonitor == InitMonitorObject /\ unit = Idle

\* lines 383-384: device_names = list(self.device_mapping.keys())
MonitorListDevices ==
    /\ mainPc = "start"
    /\ device_names' = <<MappedNames[1], MappedNames[2], MappedNames[3]>>
    /\ worker' = [d \in DOMAIN device_mapping \cup {"infrastructure"} |->
                     Task("unsubmitted", None, "", "")]
    /\ mainPc' = "infrastructure"
    /\ UNCHANGED <<device_mapping, results, lock, ret, unit>>

\* line 387 and lines 325-369: the two sub-checks and the verdict
MonitorInfrastructure ==
    /\ mainPc = "infrastructure"
    /\ worker["infrastructure"].pc = "unsubmitted"
    /\ \E outcome \in MonitorRunNetbox : \E proc \in MonitorRunSystem :
           worker' = [worker EXCEPT !["infrastructure"] =
                         Task("store", monitor_infrastructure(outcome, proc), "", "")]
    /\ UNCHANGED <<device_mapping, device_names, mainPc, results, lock, ret, unit>>

\* line 371: with self.lock
MonitorInfraAcquire ==
    /\ mainPc = "infrastructure"
    /\ worker["infrastructure"].pc = "store"
    /\ lock = "free"
    /\ lock' = "infrastructure"
    /\ worker' = [worker EXCEPT !["infrastructure"].pc = "locked"]
    /\ UNCHANGED <<device_mapping, device_names, mainPc, results, ret, unit>>

\* monitor_infrastructure without the write of line 372
MonitorInfraStore_NoWrite ==
    /\ mainPc = "infrastructure"
    /\ worker["infrastructure"].pc = "locked"
    /\ lock = "infrastructure"
    /\ lock' = "free"
    /\ worker' = [worker EXCEPT !["infrastructure"] = Task("joined", None, "", "")]
    /\ mainPc' = "submitting"
    /\ UNCHANGED <<device_mapping, device_names, results, ret, unit>>

\* lines 372-377: the write, the release, the return to monitor_all
MonitorInfraStore ==
    /\ mainPc = "infrastructure"
    /\ worker["infrastructure"].pc = "locked"
    /\ lock = "infrastructure"
    /\ results' = [k \in DOMAIN results \cup {"infrastructure"} |->
                      IF k = "infrastructure" THEN worker["infrastructure"].result
                      ELSE results[k]]
    /\ lock' = "free"
    /\ worker' = [worker EXCEPT !["infrastructure"] = Task("joined", None, "", "")]
    /\ mainPc' = "submitting"
    /\ UNCHANGED <<device_mapping, device_names, ret, unit>>

\* lines 391-392: executor.submit for the next name of the list
MonitorSubmit ==
    /\ mainPc = "submitting"
    /\ LET i == FirstAt("unsubmitted")
       IN  /\ worker' = [worker EXCEPT ![device_names[i]].pc = "queued"]
           /\ mainPc' = IF i = Len(device_names) THEN "waiting" ELSE "submitting"
    /\ UNCHANGED <<device_mapping, device_names, results, lock, ret, unit>>

\* line 390: a pool thread takes the oldest queued task, four at most run
MonitorStart(d) ==
    /\ worker[d].pc = "queued"
    /\ Cardinality(Busy) < MonitorMaxWorkers
    /\ device_names[FirstAt("queued")] = d
    /\ worker' = [worker EXCEPT ![d].pc = "running"]
    /\ UNCHANGED <<device_mapping, device_names, mainPc, results, lock, ret, unit>>

\* lines 252-313: monitor_device up to the lock
MonitorDevice(d) ==
    /\ worker[d].pc = "running"
    /\ \E env \in MonitorRunOutcomes(IndexOf(d)) :
           LET res == monitor_device(device_mapping, d, env)
           IN  worker' = [worker EXCEPT ![d] =
                             Task(IF "overall_status" \in DOMAIN res THEN "store" ELSE "done",
                                  res, "", "")]
    /\ UNCHANGED <<device_mapping, device_names, mainPc, results, lock, ret, unit>>

\* an exception escapes monitor_device before the lock is taken; the future
\* keeps it, and future.result() raises it at line 397
MonitorRaises(d) ==
    /\ worker[d].pc = "running"
    /\ worker' = [worker EXCEPT ![d] = Task("raised", None, "", "")]
    /\ UNCHANGED <<device_mapping, device_names, mainPc, results, lock, ret, unit>>

\* line 316: with self.lock
MonitorAcquire(d) ==
    /\ worker[d].pc = "store"
    /\ lock = "free"
    /\ lock' = d
    /\ worker' = [worker EXCEPT ![d].pc = "locked"]
    /\ UNCHANGED <<device_mapping, device_names, mainPc, results, ret, unit>>

\* lines 317-323: the write, the release, the return
MonitorStore(d) ==
    /\ worker[d].pc = "locked"
    /\ lock = d
    /\ results' = [k \in DOMAIN results \cup {d} |->
                      IF k = d THEN worker[d].result ELSE results[k]]
    /\ lock' = "free"
    /\ worker' = [worker EXCEPT ![d].pc = "done"]
    /\ UNCHANGED <<device_mapping, device_names, mainPc, ret, unit>>

\* lines 394-399: the as_completed loop takes a finished future; the exception
\* it raised is printed (except Exception, line 398)
MonitorJoin(d) ==
    /\ mainPc = "waiting"
    /\ worker[d].pc \in {"done", "raised"}
    /\ worker' = [worker EXCEPT ![d] =
                      Task(IF worker[d].pc = "raised" THEN "caught" ELSE "joined",
                           None, "", "")]
    /\ UNCHANGED <<device_mapping, device_names, mainPc, results, lock, ret, unit>>

\* line 401, after the with block has shut the pool down
MonitorReturn ==
    /\ mainPc = "waiting"
    /\ \A d \in Names : Taken(d)
    /\ mainPc' = "returned"
    /\ ret' = results
    /\ UNCHANGED <<device_mapping, device_names, worker, results, lock, unit>>

NextMonitor ==
    \/ MonitorListDevices
    \/ MonitorInfrastructure
    \/ MonitorInfraAcquire
    \/ MonitorInfraStore
    \/ MonitorSubmit
    \/ \E d \in Names : MonitorStart(d)
    \/ \E d \in Names : MonitorDevice(d)
    \/ \E d \in Names : MonitorRaises(d)
    \/ \E d \in Names : MonitorAcquire(d)
    \/ \E d \in Names : MonitorStore(d)
    \/ \E d \in Names : MonitorJoin(d)
    \/ MonitorReturn

SpecMonitor == InitMonitor /\ [][NextMonitor]_vars

\* the object is a NetworkMonitor: its mapping entries name a container only
IsMonitor == \A d \in DOMAIN device_mapping : DOMAIN device_mapping[d] = {"container"}

\* a run of either program
InitAll == Init \/ InitMonitor

NextAll == (~IsMonitor /\ Next) \/ (IsMonitor /\ NextMonitor)

SpecAll == InitAll /\ [][NextAll]_vars

----------------------------------------------------------------------------
(* generate_summary and the two main functions *)

\* r.get('status') == s
StatusIs(r, s) == "status" \in DOMAIN r /\ r.status = s

\* lines 408-416: the line of one device and the lines of its checks
SummaryLine(device_name, result) ==
    [device |-> device_name,
     status |-> Get(result, "status", "Unknown"),
     connection_method |-> Get(result, "connection_method", "Unknown"),
     checks |-> LET checks == Get(result, "checks", EmptyDict)
                IN  [c \in DOMAIN checks |-> Get(checks[c], "status", "Unknown")]]

\* lines 386-418; the text is kept as its parts: the four counts and, for
\* each key of the store, the line written for it (the store's iteration
\* order is left out)
generate_summary(store) ==
    IF store = EmptyDict
    THEN [text |-> "No validation results available"]
    ELSE [total |-> Cardinality(DOMAIN store),
          passed |-> Cardinality({d \in DOMAIN store : StatusIs(store[d], "Passed")}),
          failed |-> Cardinality({d \in DOMAIN store : StatusIs(store[d], "Failed")}),
          unreachable |->
              Cardinality({d \in DOMAIN store : StatusIs(store[d], "Unreachable")}),
          lines |-> [d \in DOMAIN store |-> SummaryLine(d, store[d])]]

\* validate_device_state.py, lines 420-450: main returns the store it got
\* from validate_all_devices and the script ends (`results = main()`), so the
\* process exits with status 0
main(store) == [returned |-> store, exit_code |-> 0]

\* r.get('overall_status') != 'up'
NotUp(r) == ~("overall_status" \in DOMAIN r /\ r.overall_status = "up")

\* monitor_devices.py, lines 489-525 with line 403-434 of the summary: the
\* health rate divides by the number of devices, so a non-empty store without
\* device entries ends main with ZeroDivisionError (exit status 1)
monitor_main(store) ==
    LET devices == DOMAIN store \ {"infrastructure"}
        infrastructure == Get(store, "infrastructure", EmptyDict)
        infrastructure_down == NotUp(infrastructure)
        devices_down == \E d \in devices : NotUp(store[d])
    IN  IF store # EmptyDict /\ devices = {}
        THEN [raised |-> "ZeroDivisionError", exit_code |-> 1]
        ELSE [raised |-> "",
              exit_code |-> IF infrastructure_down \/ devices_down THEN 1 ELSE 0]

\* the outputs of `ip addr show` behind the stores handed to the reporter
ReportTexts ==
    { <<HeaderLine("lo", <<"LOOPBACK", "UP", "LOWER_UP">>), InetLine("1.1.1.1/32")>>,
      <<HeaderLine("lo", <<"LOOPBACK">>)>>,
      <<HeaderLine("eth0", <<"BROADCAST", "UP">>)>> }

\* results validate_device stores for a device: Passed, Failed, Unreachable
ReportResults(name) ==
    {compare_device_state(name, IntendedOf(FullRecord(name)),
         get_device_actual_state_docker(name, DockerExecInfo(IndexOf(name)), c.proc, c.fault)) :
        c \in CollectionOutcomes(DockerExecInfo(IndexOf(name)), {},
                                 {ExitOutcome(0, t, <<>>) : t \in ReportTexts},
                                 RunFaults)}

\* every mapping from some of the names to the values
PartialMaps(names, values) == UNION {[S -> values] : S \in SUBSET names}

\* stores a validator run can end with
ValidatorStores ==
    {st \in PartialMaps({MappedNames[i] : i \in 1..3},
                        UNION {ReportResults(MappedNames[i]) : i \in 1..3}) :
        \A d \in DOMAIN st : st[d].device = d}

\* stores a monitor run can end with
MonitorStores ==
    LET devices == {st \in PartialMaps(DOMAIN MonitorMapping,
                                       UNION {{monitor_device(MonitorMapping, d, env) :
                                                  env \in MonitorRunOutcomes(IndexOf(d))} :
                                              d \in DOMAIN MonitorMapping}) :
                       \A d \in DOMAIN st : st[d].device = d}
        infra == {monitor_infrastructure(o, p) : o \in MonitorRunNetbox, p \in MonitorRunSystem}
    IN  {[k \in DOMAIN st \cup {"infrastructure"} |->
             IF k = "infrastructure" THEN i ELSE st[k]] : st \in devices, i \in infra}

----------------------------------------------------------------------------
(* sync_device_facts.py: the comparison of the inventory with the device
   facts, and the update of the inventory.  A field value is None or Str(s). *)

\* truth value of a str-or-None
TruthyStr(v) == v # None /\ v.value # ""

\* lines 57-69, 120: the devices of role router, with their serial and their
\* software_version custom field
get_netbox_current_data(nb) ==
    [d \in {x \in DOMAIN nb : nb[x].role = "router"} |->
        [serial |-> nb[d].serial, software_version |-> nb[d].software_version]]

\* lines 137-160: the fields of one device that differ
DeviceDiffs(netbox_data, device_name, facts) ==
    LET nb_device_data == Get(netbox_data, device_name, EmptyDict)
        nb_version == Get(nb_device_data, "software_version", None)
        actual_version == facts.version
        nb_serial == Get(nb_device_data, "serial", None)
        actual_serial == facts.serial
        fields == (IF nb_version # actual_version THEN {"software_version"} ELSE {})
                      \cup (IF nb_serial # actual_serial THEN {"serial"} ELSE {})
    IN  [f \in fields |->
            IF f = "software_version"
            THEN [netbox |-> nb_version, actual |-> actual_version]
            ELSE [netbox |-> nb_serial, actual |-> actual_serial]]

\* lines 131-166
compare_and_report_differences(netbox_data, device_facts) ==
    LET differing == {d \in DOMAIN device_facts :
                         DOMAIN DeviceDiffs(netbox_data, d, device_facts[d]) # {}}
    IN  [d \in differing |-> DeviceDiffs(netbox_data, d, device_facts[d])]

\* lines 188, 195: the field is written if it differs and the fact is truthy
FieldUpdated(device_diffs, field, fact) ==
    field \in DOMAIN device_diffs /\ TruthyStr(fact)

\* lines 172-206 for one device: the record the server holds afterwards
UpdatedDevice(device, facts, device_diffs, save_ok) ==
    IF ~save_ok THEN device
    ELSE [role |-> device.role,
          serial |-> IF FieldUpdated(device_diffs, "serial", facts.serial)
                     THEN facts.serial ELSE device.serial,
          software_version |->
              IF FieldUpdated(device_diffs, "software_version", facts.version)
              THEN facts.version ELSE device.software_version]

\* lines 168-213: the inventory afterwards and the count returned
update_netbox_with_facts(nb, device_facts, differences, save_ok) ==
    LET touched == {d \in DOMAIN device_facts : d \in DOMAIN differences /\ d \in DOMAIN nb}
        made(d) == (IF FieldUpdated(differences[d], "serial", device_facts[d].serial)
                    THEN 1 ELSE 0)
                    + (IF FieldUpdated(differences[d], "software_version",
                                       device_facts[d].version)
                       THEN 1 ELSE 0)
        Sum[S \in SUBSET touched] ==
            IF S = {} THEN 0
            ELSE LET d == CHOOSE x \in S : TRUE IN made(d) + Sum[S \ {d}]
    IN  [nb |-> [d \in DOMAIN nb |->
                    IF d \in touched
                    THEN UpdatedDevice(nb[d], device_facts[d], differences[d], save_ok)
                    ELSE nb[d]],
         updates_made |-> Sum[touched]]

\* main, lines 243-267: compare, update where something differs; then the
\* comparison made again on the inventory read back
SyncRoundTrip(nb, device_facts, save_ok) ==
    LET differences == compare_and_report_differences(get_netbox_current_data(nb),
                                                      device_facts)
        updated == IF differences = EmptyDict THEN [nb |-> nb, updates_made |-> 0]
                   ELSE update_netbox_with_facts(nb, device_facts, differences, save_ok)
    IN  [differences |-> differences,
         nb_after |-> updated.nb,
         updates_made |-> updated.updates_made,
         differences_after |->
             compare_and_report_differences(get_netbox_current_data(updated.nb),
                                            device_facts)]

SyncNames == {"Router-1", "Router-2"}

\* what the inventory holds of one device
SyncDevices ==
    {[role |-> "switch", serial |-> Str(""), software_version |-> None]}
    \cup {[role |-> "router", serial |-> Str(sn), software_version |-> v] :
             sn \in {"", "SN0", "SN1"}, v \in {None, Str("15.2")}}

\* what a facts file holds of one device: a key that is absent reads as None
SyncFacts ==
    {[serial |-> sn, version |-> v] :
        sn \in {None, Str(""), Str("SN1")}, v \in {None, Str("15.2")}}

SyncCalls ==
    {[op |-> "sync", in |-> [nb |-> nb, device_facts |-> f, save_ok |-> ok],
      out |-> [py |-> "pending"]] :
        nb \in PartialMaps(SyncNames, SyncDevices),
        f \in PartialMaps(SyncNames, SyncFacts) \ {EmptyDict},
        ok \in BOOLEAN}

----------------------------------------------------------------------------
(* Direct calls of one method on a constructed object: the call and its    *)
(* arguments are drawn at the start, the action applies the method.        *)

Pending == [py |-> "pending"]

Call(op, in) == [op |-> op, in |-> in, out |-> Pending]

UnitNames == {"Router-1", "Router-2", "Router-3", "Router-4"}

UnitSsh == {SshOk(t) : t \in Texts} \cup SshFailures

UnitExec == ExecOutcomes(Texts)

UnitFaults == {"fault in collection"}

\* intended states the comparator is given
UnitIntended(name) ==
    {IntendedOf(r) : r \in {[name |-> name],
                            FullRecord(name),
                            [name |-> name, custom_fields |-> [bgp_asn |-> "65001"]]}}

\* actual states the comparator is given: whatever the collector returns
UnitActual(mapping, name) ==
    {get_device_actual_state(name, get_device_connection_params(mapping, name),
                             mapping[name], c.ssh, c.proc, c.fault) :
        c \in CollectionOutcomes(mapping[name], UnitSsh, UnitExec, UnitFaults)}

UnitInspections ==
    {<<a, b, c>> : a \in InspectOutcomes(1), b \in InspectOutcomes(2), c \in InspectOutcomes(3)}

\* what the external calls of one monitor_device can come to
MonitorExecs == {ExitOutcome(0, <<>>, <<>>), ExitOutcome(1, <<>>, <<>>),
                 RaiseOutcome("timed out after 10 seconds")}

MonitorInspects(i) == {InspectExit(0, <<ContainerIp[i], "\n">>), InspectExit(0, <<"\n">>),
                       InspectExit(1, <<>>), InspectRaise("timed out after 10 seconds")}

MonitorPings == {ExitOutcome(0, <<>>, <<>>), ExitOutcome(1, <<>>, <<>>),
                 RaiseOutcome("timed out after 5 seconds")}

MonitorDeviceCalls ==
    UNION {{Call("monitor_device",
                 [device_name |-> MappedNames[i], env |-> MonitorEnv(c, e, a, p)]) :
               c \in ContainerOutcomes, e \in MonitorExecs,
               a \in MonitorInspects(i), p \in MonitorPings} : i \in 1..3}
    \cup {Call("monitor_device",
               [device_name |-> "Router-4",
                env |-> MonitorEnv("absent", NoExec, InspectRaise(""), NoPing)])}

\* calls of the reporter and of the two main functions
ReportCalls ==
    {Call("generate_summary", [results |-> st]) : st \in ValidatorStores}
    \cup {Call("main", [returned |-> st]) : st \in ValidatorStores}
    \cup {Call("monitor_main", [store |-> st]) : st \in MonitorStores}

UnitCalls(mapping) ==
    {Call("mappings", [inspected |-> i]) : i \in UnitInspections}
    \cup ReportCalls
    \cup {Call("parse", [output |-> t]) : t \in ParseTexts}
    \cup MonitorDeviceCalls
    \cup SyncCalls
    \cup {Call("monitor_infrastructure", [outcome |-> o, proc |-> p]) :
             o \in NetboxOutcomes, p \in DockerSystemOutcomes}
    \cup UNION {{Call("fetch", [device_name |-> n, response |-> r]) : r \in DeviceResponses(n)} :
              n \in UnitNames}
    \cup {Call("collect_docker", [device_name |-> n, proc |-> c.proc, fault |-> c.fault]) :
             n \in DOMAIN mapping,
             c \in CollectionOutcomes(DockerExecInfo(1), {}, UnitExec, UnitFaults)}
    \cup UNION {{Call("collect", [device_name |-> n, ssh |-> c.ssh, proc |-> c.proc,
                                  fault |-> c.fault]) :
                    c \in CollectionOutcomes(mapping[n], UnitSsh, UnitExec, UnitFaults)} :
                n \in DOMAIN mapping}
    \cup UNION {{Call("compare", [device_name |-> n, intended |-> i, actual |-> a]) :
                    i \in UnitIntended(n), a \in UnitActual(mapping, n)} :
                n \in DOMAIN mapping}

InitUnit == InitValidator /\ unit \in UnitCalls(device_mapping)

ApplyMappings ==
    /\ unit.op = "mappings" /\ unit.out = Pending
    /\ unit' = [unit EXCEPT !.out = get_container_mappings(unit.in.inspected)]
    /\ UNCHANGED runVars

\* NetworkMonitor.monitor_infrastructure: the record it builds and returns
ApplyMonitorInfrastructure ==
    /\ unit.op = "monitor_infrastructure" /\ unit.out = Pending
    /\ unit' = [unit EXCEPT !.out = monitor_infrastructure(unit.in.outcome, unit.in.proc)]
    /\ UNCHANGED runVars

ApplyGenerateSummary ==
    /\ unit.op = "generate_summary" /\ unit.out = Pending
    /\ unit' = [unit EXCEPT !.out = generate_summary(unit.in.results)]
    /\ UNCHANGED runVars

\* validate_device_state.py main, from the return of validate_all_devices on
ApplyMain ==
    /\ unit.op = "main" /\ unit.out = Pending
    /\ unit' = [unit EXCEPT !.out = main(unit.in.returned)]
    /\ UNCHANGED runVars

\* monitor_devices.py main, from the return of monitor_all on
ApplyMonitorMain ==
    /\ unit.op = "monitor_main" /\ unit.out = Pending
    /\ unit' = [unit EXCEPT !.out = monitor_main(unit.in.store)]
    /\ UNCHANGED runVars

ApplyParse ==
    /\ unit.op = "parse" /\ unit.out = Pending
    /\ unit' = [unit EXCEPT !.out = parse_interface_output(unit.in.output)]
    /\ UNCHANGED runVars

\* sync_device_facts.main from the comparison on
ApplySync ==
    /\ unit.op = "sync" /\ unit.out = Pending
    /\ unit' = [unit EXCEPT !.out =
                    SyncRoundTrip(unit.in.nb, unit.in.device_facts, unit.in.save_ok)]
    /\ UNCHANGED runVars

\* NetworkMonitor.monitor_device: the record it builds, stores and returns
ApplyMonitorDevice ==
    /\ unit.op = "monitor_device" /\ unit.out = Pending
    /\ unit' = [unit EXCEPT !.out =
                    monitor_device(MonitorMapping, unit.in.device_name, unit.in.env)]
    /\ UNCHANGED runVars

ApplyFetch ==
    /\ unit.op = "fetch" /\ unit.out = Pending
    /\ unit' = [unit EXCEPT !.out =
                    get_netbox_device_state(unit.in.device_name, unit.in.response)]
    /\ UNCHANGED runVars

ApplyCollectDocker ==
    /\ unit.op = "collect_docker" /\ unit.out = Pending
    /\ unit' = [unit EXCEPT !.out =
                    get_device_actual_state_docker(
                        unit.in.device_name, device_mapping[unit.in.device_name],
                        unit.in.proc, unit.in.fault)]
    /\ UNCHANGED runVars

ApplyCollect ==
    /\ unit.op = "collect" /\ unit.out = Pending
    /\ unit' = [unit EXCEPT !.out =
                    get_device_actual_state(
                        unit.in.device_name,
                        get_device_connection_params(device_mapping, unit.in.device_name),
                        device_mapping[unit.in.device_name],
                        unit.in.ssh, unit.in.proc, unit.in.fault)]
    /\ UNCHANGED runVars

ApplyCompare ==
    /\ unit.op = "compare" /\ unit.out = Pending
    /\ unit' = [unit EXCEPT !.out =
                    compare_device_state(unit.in.device_name, unit.in.intended,
                                         unit.in.actual)]
    /\ UNCHANGED runVars

NextUnit ==
    \/ ApplyMappings
    \/ ApplyMonitorInfrastructure
    \/ ApplyGenerateSummary
    \/ ApplyMain
    \/ ApplyMonitorMain
    \/ ApplyParse
    \/ ApplyMonitorDevice
    \/ ApplySync
    \/ ApplyFetch
    \/ ApplyCollectDocker
    \/ ApplyCollect
    \/ ApplyCompare

SpecUnit == InitUnit /\ [][NextUnit]_vars

\* the direct call of op has returned
Returned(op) == unit.op = op /\ unit.out # Pending

----------------------------------------------------------------------------
(* Runs of validate_all_devices and monitor_all in which what every external
   call comes to is fixed before the run: only the scheduling of the pool
   threads is left open *)

MaxFixedDevices == 3

\* what the calls made for one device come to: the worker raises, or its
\* calls return env
Outcome(raises, env) == [raises |-> raises, env |-> env]

NoCollection == CallOutcomes(ErrorResponse("timeout"), NoSsh, NoExec, "")

\* for a device of the validator: an exception, a failed fetch, a collection
\* that succeeds (over the session or over docker exec) and one that fails
FixedValidatorOutcomes(mapping, d) ==
    LET text == <<HeaderLine("lo", <<"LOOPBACK", "UP", "LOWER_UP">>), InetLine("1.1.1.1/32")>>
        record == OkResponse(<<FullRecord(d)>>)
        ssh == d \in DOMAIN mapping /\ mapping[d].connection_type = "ssh"
    IN  {Outcome(TRUE, NoCollection), Outcome(FALSE, NoCollection),
         Outcome(FALSE, IF ssh THEN CallOutcomes(record, SshOk(text), NoExec, "")
                        ELSE CallOutcomes(record, NoSsh, ExitOutcome(0, text, <<>>), "")),
         Outcome(FALSE, CallOutcomes(record, IF ssh THEN SshRaise("timeout") ELSE NoSsh,
                                     RaiseOutcome("Command timed out after 30 seconds"), ""))}

\* for a device of the monitor: an exception, a container that runs and
\* answers, a container that is stopped
FixedMonitorOutcomes(d) ==
    {Outcome(TRUE, MonitorEnv("timeout", NoExec, InspectRaise(""), NoPing)),
     Outcome(FALSE, MonitorEnv("listed", ExitOutcome(0, <<>>, <<>>),
                               InspectExit(0, <<ContainerIp[IndexOf(d)], "\n">>),
                               ExitOutcome(0, <<>>, <<>>))),
     Outcome(FALSE, MonitorEnv("listed_stopped", NoExec, InspectRaise(""), NoPing))}

FixedInfrastructure ==
    {[netbox |-> "ok", system |-> SystemExit(0, TRUE)],
     [netbox |-> "ConnectionError", system |-> SystemRaise]}

\* one outcome for every name: options[d] holds the outcomes for d
OutcomeMaps(options) ==
    {f \in [DOMAIN options -> UNION {options[d] : d \in DOMAIN options}] :
        \A d \in DOMAIN options : f[d] \in options[d]}

\* the list of the first k routers, k up to n, and an outcome for each
FixedValidatorInputs(mapping, n) ==
    UNION {{[listed |-> SubSeq(RouterNames, 1, k), outcome |-> f] :
               f \in OutcomeMaps([d \in {RouterNames[i] : i \in 1..k} |->
                                     FixedValidatorOutcomes(mapping, d)])} :
           k \in 0..n}

FixedValidatorRuns(mapping) ==
    {Call("run", x) : x \in FixedValidatorInputs(mapping, MaxFixedDevices)}

FixedMonitorInputs(infrastructures, options) ==
    {[infrastructure |-> x, outcome |-> f] :
        x \in infrastructures, f \in OutcomeMaps(options)}

FixedMonitorRuns ==
    {Call("run", x) : x \in FixedMonitorInputs(FixedInfrastructure,
                                              [d \in DOMAIN MonitorMapping |->
                                                  FixedMonitorOutcomes(d)])}

InitFixed ==
    \/ InitValidator /\ unit \in FixedValidatorRuns(device_mapping)
    \/ InitMonitorObject /\ unit \in FixedMonitorRuns

\* lines 354-364 with the list the inventory returns fixed
FixedFetchDevices ==
    /\ mainPc = "start"
    /\ LET names == SelectRouters(unit.in.listed)
       IN  /\ device_names' = names
           /\ worker' = [d \in {names[i] : i \in 1..Len(names)} |->
                            Task("unsubmitted", None, "", "")]
           /\ IF names = <<>>
              THEN mainPc' = "returned" /\ ret' = EmptyDict
              ELSE mainPc' = "submitting" /\ ret' = ret
    /\ UNCHANGED <<device_mapping, results, lock, unit>>

\* lines 326-344 with the outcomes of the calls for d fixed
FixedValidate(d) ==
    /\ worker[d].pc = "running"
    /\ ~unit.in.outcome[d].raises
    /\ LET env == unit.in.outcome[d].env
           res == ValidateDeviceResult(device_mapping, d, env)
       IN  worker' = [worker EXCEPT ![d] =
               Task(IF res = None THEN "done" ELSE "store", res,
                    FetchKind(env.response),
                    CollectKind(device_mapping, d, env, res))]
    /\ UNCHANGED <<device_mapping, device_names, mainPc, results, lock, ret, unit>>

\* the worker of d is one that raises before the lock is taken
FixedRaises(d) ==
    /\ worker[d].pc = "running"
    /\ unit.in.outcome[d].raises
    /\ worker' = [worker EXCEPT ![d] = Task("raised", None, "", "")]
    /\ UNCHANGED <<device_mapping, device_names, mainPc, results, lock, ret, unit>>

\* line 387 and lines 325-369 with the two sub-checks fixed
FixedMonitorInfrastructure ==
    /\ mainPc = "infrastructure"
    /\ worker["infrastructure"].pc = "unsubmitted"
    /\ worker' = [worker EXCEPT !["infrastructure"] =
                     Task("store",
                          monitor_infrastructure(unit.in.infrastructure.netbox,
                                                 unit.in.infrastructure.system),
                          "", "")]
    /\ UNCHANGED <<device_mapping, device_names, mainPc, results, lock, ret, unit>>

\* lines 252-313 with the outcomes of the checks of d fixed
FixedMonitorDevice(d) ==
    /\ worker[d].pc = "running"
    /\ ~unit.in.outcome[d].raises
    /\ LET res == monitor_device(device_mapping, d, unit.in.outcome[d].env)
       IN  worker' = [worker EXCEPT ![d] =
                         Task(IF "overall_status" \in DOMAIN res THEN "store" ELSE "done",
                              res, "", "")]
    /\ UNCHANGED <<device_mapping, device_names, mainPc, results, lock, ret, unit>>

\* the steps of validate_all_devices for a validator, of monitor_all for a
\* monitor
NextFixed ==
    \/ ~IsMonitor /\ FixedFetchDevices
    \/ ~IsMonitor /\ Submit
    \/ ~IsMonitor /\ \E d \in Names : Start(d)
    \/ ~IsMonitor /\ \E d \in Names : FixedValidate(d)
    \/ ~IsMonitor /\ \E d \in Names : Acquire(d)
    \/ ~IsMonitor /\ \E d \in Names : Store(d)
    \/ ~IsMonitor /\ \E d \in Names : Join(d)
    \/ ~IsMonitor /\ Return
    \/ \E d \in Names : FixedRaises(d)
    \/ IsMonitor /\ MonitorListDevices
    \/ IsMonitor /\ FixedMonitorInfrastructure
    \/ IsMonitor /\ MonitorInfraAcquire
    \/ IsMonitor /\ MonitorInfraStore
    \/ IsMonitor /\ MonitorSubmit
    \/ IsMonitor /\ \E d \in Names : MonitorStart(d)
    \/ IsMonitor /\ \E d \in Names : FixedMonitorDevice(d)
    \/ IsMonitor /\ \E d \in Names : MonitorAcquire(d)
    \/ IsMonitor /\ \E d \in Names : MonitorStore(d)
    \/ IsMonitor /\ \E d \in Names : MonitorJoin(d)
    \/ IsMonitor /\ MonitorReturn

SpecFixed == InitFixed /\ [][NextFixed]_vars

----------------------------------------------------------------------------
(* Two runs on one object: validate_all_devices, or monitor_all, is called
   again after it has returned *)

MaxRerunDevices == 2

\* a first run and the run that follows it
TwoRuns(first, next) ==
    [op |-> "run", in |-> [x \in DOMAIN first \cup {"next"} |->
                              IF x = "next" THEN next ELSE first[x]],
     out |-> Pending]

\* for a device of a monitor that runs twice: an exception, or a container
\* that runs and answers
RerunMonitorOutcomes(d) ==
    {o \in FixedMonitorOutcomes(d) : o.raises \/ o.env.container = "listed"}

RerunMonitorOptions == [d \in DOMAIN MonitorMapping |-> RerunMonitorOutcomes(d)]

RerunInfrastructure == {[netbox |-> "ok", system |-> SystemExit(0, TRUE)]}

InitRerun ==
    \/ /\ InitValidator
       /\ unit \in {TwoRuns(x, y) :
                        x \in FixedValidatorInputs(device_mapping, MaxRerunDevices),
                        y \in FixedValidatorInputs(device_mapping, MaxRerunDevices)}
    \/ /\ InitMonitorObject
       /\ unit \in {TwoRuns(x, y) :
                        x \in FixedMonitorInputs(RerunInfrastructure, RerunMonitorOptions),
                        y \in FixedMonitorInputs(RerunInfrastructure, RerunMonitorOptions)}

\* the method is called again on the object: its locals start afresh, while
\* self.results, assigned in __init__ only (validator line 30, monitor line
\* 31), is the dictionary the earlier run filled
Rerun ==
    /\ unit.op = "run"
    /\ "next" \in DOMAIN unit.in
    /\ mainPc = "returned"
    /\ mainPc' = "start"
    /\ device_names' = <<>>
    /\ worker' = EmptyDict
    /\ ret' = None
    /\ unit' = Call("rerun", unit.in.next)
    /\ UNCHANGED <<device_mapping, results, lock>>

NextRerun == NextFixed \/ Rerun

SpecRerun == InitRerun /\ [][NextRerun]_vars

----------------------------------------------------------------------------
(* Claims *)

RunReturned == mainPc = "returned"

\* the device entries of the store (the reserved key is not a device)
DeviceEntries == DOMAIN results \ {"infrastructure"}

\* C1: after a completed run the result store holds exactly one entry per
\* requested device name, whatever failed for the device.
C1_OneEntryPerDevice == RunReturned => DeviceEntries = Names

\* C2: the comparator's result is Unreachable exactly when the actual state's
\* connection outcome is not Connected; a Passed result carries no error
\* reason, and an Unreachable one carries the reason and an empty check map.
C2_UnreachableIffNotConnected ==
    Returned("compare") =>
        LET actual == unit.in.actual
            r == unit.out
        IN  /\ r.status = "Unreachable"
                   <=> Get(actual, "connection_status", "") # "Connected"
            /\ r.status = "Passed" => "error" \notin DOMAIN r
            /\ r.status = "Unreachable" =>
                   /\ r.checks = EmptyDict
                   /\ "error" \in DOMAIN r
                   /\ r.error = Get(actual, "error", "Unknown error")

\* the comparator was given a Failed actual state and answered Unreachable
C2_Witness ==
    /\ Returned("compare")
    /\ unit.in.actual.connection_status = "Failed"
    /\ unit.out.status = "Unreachable"

\* the comparator was given a Connected actual state
ComparedConnected ==
    /\ Returned("compare")
    /\ unit.in.actual.connection_status = "Connected"

\* C3: for a connected device whose interface table has no "lo" entry the
\* loopback check is "Not Found" and the overall status is Failed.
C3_NoLoopbackFails ==
    (ComparedConnected /\ "lo" \notin DOMAIN unit.in.actual.interfaces) =>
        /\ unit.out.checks["loopback_interface"].status = "Not Found"
        /\ unit.out.status = "Failed"

\* C4: for a connected device whose interface table has a "lo" entry, the
\* result is Passed with loopback check "Up" exactly when the entry is up;
\* otherwise the check is "Down" and the result is Failed.
C4_LoopbackStatusDecides ==
    (ComparedConnected /\ "lo" \in DOMAIN unit.in.actual.interfaces) =>
        LET up == unit.in.actual.interfaces["lo"].status = "UP"
            check == unit.out.checks["loopback_interface"].status
        IN  /\ (unit.out.status = "Passed" /\ check = "Up") <=> up
            /\ ~up => (unit.out.status = "Failed" /\ check = "Down")

\* Router-1 with its loopback up and addressed, declared ASN 65001: Passed, Up
C4_Witness ==
    /\ ComparedConnected
    /\ unit.in.device_name = "Router-1"
    /\ unit.in.intended.bgp_asn = "65001"
    /\ "lo" \in DOMAIN unit.in.actual.interfaces
    /\ unit.in.actual.interfaces["lo"].status = "UP"
    /\ unit.in.actual.interfaces["lo"].addresses = <<"1.1.1.1/32">>
    /\ unit.out.status = "Passed"
    /\ unit.out.checks["loopback_interface"].status = "Up"

\* the docker exec of a call exited non-zero or raised (timed out)
ExecFailed(proc) ==
    proc.kind = "raise" \/ (proc.kind = "exit" /\ proc.returncode # 0)

\* C5: when the docker exec exits non-zero or times out, the docker collector
\* returns a Failed actual state that carries the error text, never Connected.
C5_FailedExecGivesFailedState ==
    (Returned("collect_docker") /\ ExecFailed(unit.in.proc)) =>
        /\ unit.out.connection_status = "Failed"
        /\ "error" \in DOMAIN unit.out

\* C6: a device whose direct transport is unavailable or fails and whose docker
\* exec fails too ends with a store entry of status Unreachable, with the
\* error text and an empty check map.
C6_FailedCollectionIsUnreachable ==
    \A d \in Names :
        (worker[d].pc = "done" /\ worker[d].collect = "exec_failed") =>
            /\ d \in DOMAIN results
            /\ results[d].status = "Unreachable"
            /\ "error" \in DOMAIN results[d]
            /\ results[d].checks = EmptyDict

\* the number i of a mapped device name
\* C7: when a device resolved to ssh has its session fail, the collector
\* returns what the docker collector returns for the same device resolved to
\* docker_exec from the start, under the same docker exec outcome.
C7_FallbackEqualsIndirect ==
    (/\ Returned("collect")
     /\ device_mapping[unit.in.device_name].connection_type = "ssh"
     /\ unit.in.ssh.kind = "raise") =>
        /\ unit.out = get_device_actual_state_docker(
                          unit.in.device_name,
                          DockerExecInfo(IndexOf(unit.in.device_name)),
                          unit.in.proc, unit.in.fault)
        /\ unit.out.connection_method = "docker_exec"

\* an ssh device whose session failed and whose docker exec then gave the
\* interface table
C7_Witness ==
    /\ Returned("collect")
    /\ device_mapping[unit.in.device_name].connection_type = "ssh"
    /\ unit.in.ssh.kind = "raise"
    /\ unit.in.proc.kind = "exit" /\ unit.in.proc.returncode = 0
    /\ unit.out.connection_status = "Connected"
    /\ "lo" \in DOMAIN unit.out.interfaces

\* C8: a device for which the inventory answers with zero records is still
\* reported, with every intended field "Unknown".
C8_UndeclaredDeviceReported ==
    \A d \in Names :
        (/\ worker[d].pc = "done"
         /\ worker[d].fetch = "zero"
         /\ d \in DOMAIN device_mapping) =>
            /\ d \in DOMAIN results
            /\ \A f \in DeclaredFields : results[d].intended_state[f] = "Unknown"

\* the fetcher was given an answer holding a record
FetchedRecord == Returned("fetch") /\ unit.in.response.results # <<>>

\* the declared fields missing from the record the fetcher was given
MissingFields ==
    DeclaredFields \ DOMAIN Get(unit.in.response.results[1], "custom_fields", EmptyDict)

\* C9 as stated: the fetcher returns an intended state for every record, with
\* every missing declared field set to "Unknown".
C9_MissingFieldsUnknown ==
    FetchedRecord =>
        /\ unit.out # None
        /\ \A f \in MissingFields : unit.out[f] = "Unknown"

\* C9 as amended: the fetcher returns an intended state for every record,
\* with a missing ASN, loopback address or router ID set to "Unknown" and a
\* missing area set to "0".
C9_MissingFieldsDefaulted ==
    FetchedRecord =>
        /\ unit.out # None
        /\ \A f \in MissingFields :
               unit.out[f] = IF f = "ospf_area" THEN "0" ELSE "Unknown"

\* the fetcher was given a record that declares nothing
C9_Witness ==
    /\ FetchedRecord
    /\ MissingFields = DeclaredFields
    /\ unit.out # None
    /\ unit.out.bgp_asn = "Unknown"
    /\ unit.out.ospf_area = "0"

\* C10: what the fetcher returns for an answer with zero records differs from
\* what it returns for any failed request.
C10_NotFoundDistinctFromError ==
    (Returned("fetch") /\ FetchKind(unit.in.response) = "zero") =>
        \A e \in RequestErrors :
            unit.out # get_netbox_device_state(unit.in.device_name, ErrorResponse(e))

\* the address printed by an inspection, "" when it printed blanks only
InspectedAddress(proc) ==
    LET at == {k \in 1..Len(proc.stdout) : proc.stdout[k] \notin Whitespace}
    IN  IF at = {} THEN "" ELSE proc.stdout[CHOOSE k \in at : TRUE]

\* C11: resolving the transports never raises and gives a descriptor for each
\* of the three known devices: ssh with the inspected address exactly when the
\* inspection exits 0 with a non-empty address, docker_exec naming the
\* container when it exits non-zero, prints no address, times out or throws.
C11_TransportResolution ==
    Returned("mappings") =>
        /\ DOMAIN unit.out = {MappedNames[i] : i \in 1..3}
        /\ \A i \in 1..3 :
               LET proc == unit.in.inspected[i]
                   info == unit.out[MappedNames[i]]
                   direct == /\ proc.kind = "exit"
                             /\ proc.returncode = 0
                             /\ InspectedAddress(proc) # ""
               IN  /\ info.container = Containers[i]
                   /\ info.connection_type = "ssh" <=> direct
                   /\ direct => info.ip = InspectedAddress(proc)
                   /\ ~direct => /\ info.connection_type = "docker_exec"
                                 /\ info.ip = Containers[i]

\* one resolution met an address after a leading blank, a blank output with
\* exit status 0, and a timeout
C11_Witness ==
    /\ Returned("mappings")
    /\ unit.in.inspected[1] = InspectExit(0, <<" ", ContainerIp[1], "\n">>)
    /\ unit.in.inspected[2] = InspectExit(0, <<" ", "\n">>)
    /\ unit.in.inspected[3].kind = "raise"
    /\ unit.out["Router-1"].connection_type = "ssh"
    /\ unit.out["Router-2"].connection_type = "docker_exec"
    /\ unit.out["Router-3"].connection_type = "docker_exec"

\* C12: an exception raised inside one device's worker is caught at the worker
\* boundary, does not leave the run, and is recorded in the result store as an
\* Unreachable/error entry for that device.
C12_RaisedWorkerRecorded ==
    \A d \in Names :
        worker[d].pc = "caught" =>
            /\ mainPc \in {"waiting", "returned"}
            /\ d \in DOMAIN results
            /\ "error" \in DOMAIN results[d]

\* a sibling of d has raised
SiblingRaised(d) == \E e \in Names \ {d} : worker[e].pc \in {"raised", "caught"}

\* the next step of the task of d can be taken
CanProceed(d) ==
    CASE worker[d].pc = "running" ->
             IF IsMonitor THEN ENABLED MonitorDevice(d) ELSE ENABLED Validate(d)
      [] worker[d].pc = "store" /\ lock = "free" ->
             IF IsMonitor THEN ENABLED MonitorAcquire(d) ELSE ENABLED Acquire(d)
      [] worker[d].pc = "locked" ->
             IF IsMonitor THEN ENABLED MonitorStore(d) ELSE ENABLED Store(d)
      [] OTHER -> TRUE

\* C13: the run returns the store only after every dispatched worker has
\* finished, completed or raised: when it returns no worker is queued, running
\* or about to write, the lock is free and the returned store is the final
\* one; and a worker whose sibling has raised can still take each of its steps
\* up to the write of its result.
C13_ReturnsAfterAllWorkers ==
    /\ RunReturned =>
           /\ \A d \in Names : worker[d].pc \in {"joined", "caught"}
           /\ lock = "free"
           /\ ret = results
    /\ \A d \in Names : SiblingRaised(d) => CanProceed(d)

\* a returned run in which one worker raised and two siblings stored
C13_Witness ==
    /\ RunReturned
    /\ \E d \in Names : worker[d].pc = "caught" /\ d \notin DOMAIN results
    /\ Cardinality(DOMAIN results \cap Names) >= 2
    /\ ret = results

\* C14: an unreachable source-of-truth service does not block the device
\* workers: a device whose intended-state request failed and that is mapped to
\* the indirect transport still gets its state collected and a result stored.
C14_SourceDownStillStores ==
    \A d \in Names :
        (/\ worker[d].pc = "done"
         /\ worker[d].fetch = "error"
         /\ d \in DOMAIN device_mapping
         /\ device_mapping[d].connection_type = "docker_exec") =>
            /\ worker[d].collect # "none"
            /\ d \in DOMAIN results

\* the tasks inside the write section
Writers == {d \in DOMAIN worker : worker[d].pc = "locked"}

\* a step that changes the store inserts the one key of the lock's holder
SingleKeyInsert ==
    results' # results =>
        \E d \in Writers :
            /\ lock = d
            /\ lock' = "free"
            /\ DOMAIN results' = DOMAIN results \cup {d}
            /\ results'[d] = worker[d].result
            /\ \A k \in DOMAIN results \ {d} : results'[k] = results[k]

\* C15: every write to the shared store is a single-key insert made while
\* holding the lock: never are two workers, or a worker and the infrastructure
\* check, inside the write section together, the lock names the one that is,
\* and a worker writes only the key of its own device.
C15_WritesUnderLock ==
    /\ [](/\ Cardinality(Writers) <= 1
          /\ \A d \in DOMAIN worker : worker[d].pc = "locked" <=> lock = d)
    /\ [][SingleKeyInsert]_vars

\* one worker is inside the write section while two others wait for the lock
C15_Witness ==
    /\ Cardinality(Writers) = 1
    /\ Cardinality({d \in Names : worker[d].pc = "store"}) >= 2
    /\ lock \in Names

\* C16: with more devices than pool threads, a run in which every external
\* call returns or times out (no worker raises) never deadlocks: it can stop
\* only by returning, and then the store has an entry for every device.
C16_RunEndsWithAllEntries ==
    (/\ Len(device_names) > MaxWorkers
     /\ \A d \in Names : worker[d].pc # "caught"
     /\ ~ENABLED Next) =>
        (RunReturned /\ \A d \in Names : d \in DOMAIN ret)

\* the cap of the pool of the program that runs
PoolCap == IF IsMonitor THEN MonitorMaxWorkers ELSE MaxWorkers

\* C17: the device tasks run in a bounded pool, one task per device: never do
\* more workers execute at once than the cap (3 in the validator, 4 in the
\* monitor), however many devices there are.
C17_PoolCap ==
    /\ Cardinality(Busy) <= PoolCap
    /\ DOMAIN worker \ {"infrastructure"} = Names

\* three validator workers execute while a fourth device waits in the queue
C17_Witness ==
    /\ ~IsMonitor
    /\ Cardinality(Busy) = MaxWorkers
    /\ \E d \in Names : worker[d].pc = "queued"

\* a device task has been handed to the pool
Dispatched == \E d \in Names : worker[d].pc # "unsubmitted"

C19_InfraUpIffBothUp ==
    Returned("monitor_infrastructure") =>
        LET netbox == unit.out.checks.netbox_api.status
            docker == unit.out.checks.docker_system.status
        IN  /\ unit.out.overall_status \in {"up", "down"}
            /\ netbox \in {"up", "timeout", "connection_error", "http_error", "error"}
            /\ docker \in {"up", "error"}
            /\ netbox = "up" <=> unit.in.outcome = "ok"
            /\ docker = "up" <=> unit.in.proc = SystemExit(0, TRUE)
            /\ unit.out.overall_status = "up" <=> (netbox = "up" /\ docker = "up")

\* the API answered but the container subsystem's command failed
C19_Witness ==
    /\ Returned("monitor_infrastructure")
    /\ unit.in.outcome = "ok"
    /\ unit.in.proc = SystemExit(1, FALSE)
    /\ unit.out.overall_status = "down"

\* C20: the run never fails outright: whatever external calls fail, no
\* exception leaves the entry point, the run can always take a step until it
\* has returned, and what it returns is the result store.
C20_RunNeverFails ==
    /\ mainPc \in {"start", "infrastructure", "submitting", "waiting", "returned"}
    /\ ~RunReturned => ENABLED NextAll
    /\ RunReturned => (ret # None /\ ret = results)

\* a returned validator run in which one worker raised, one device got no
\* entry and one was stored after its session failed
C20_Witness ==
    /\ ~IsMonitor
    /\ RunReturned
    /\ \E d \in Names : worker[d].pc = "caught"
    /\ \E d \in Names : worker[d].pc = "joined" /\ d \notin DOMAIN ret
    /\ \E d \in DOMAIN ret :
           device_mapping[d].connection_type = "ssh"
               /\ ret[d].connection_method = "docker_exec"

\* the device entries of the store handed to a main function are all up:
\* Passed for the validator, overall status up for the monitor
AllDevicesUp(store) ==
    \A d \in DOMAIN store \ {"infrastructure"} :
        StatusIs(store[d], "Passed") \/ ~NotUp(store[d])

\* C21: the entry point's exit verdict is 0 exactly when every device of the
\* result store is Passed/Connected (up), and nonzero when any device is
\* Unreachable or Failed (down).
C21_ExitVerdict ==
    /\ Returned("main") => (unit.out.exit_code = 0 <=> AllDevicesUp(unit.in.returned))
    /\ Returned("monitor_main") => (unit.out.exit_code = 0 <=> AllDevicesUp(unit.in.store))

\* the parts of the line of a device that the summary shows
LineTokens(line) ==
    {line.device, line.status, line.connection_method}
        \cup DOMAIN line.checks \cup {line.checks[c] : c \in DOMAIN line.checks}

\* C22: the summary shows every device entry exactly once, shows the error
\* text of every Unreachable entry, and its Passed, Failed and Unreachable
\* counts add up to the number of device entries.
C22_SummaryShowsReason ==
    (Returned("generate_summary") /\ unit.in.results # EmptyDict) =>
        /\ DOMAIN unit.out.lines = DOMAIN unit.in.results
        /\ unit.out.passed + unit.out.failed + unit.out.unreachable = unit.out.total
        /\ \A d \in DOMAIN unit.in.results :
               StatusIs(unit.in.results[d], "Unreachable") =>
                   unit.in.results[d].error \in LineTokens(unit.out.lines[d])

\* the positions of the interface header lines of a text
HeaderIdx(t) == {i \in 1..Len(t) : t[i].kind = "header"}

\* the position of the last header line that names interface n
LastHeaderOf(t, n) ==
    CHOOSE h \in HeaderIdx(t) :
        t[h].name = n /\ \A k \in HeaderIdx(t) : t[k].name = n => k <= h

\* the addresses of the address lines between header h and the next header
BlockAddresses(t, h) ==
    LET later == {k \in HeaderIdx(t) : k > h}
        end == IF later = {} THEN Len(t)
               ELSE (CHOOSE k \in later : \A j \in later : k <= j) - 1
        lines == SelectSeq(SubSeq(t, h + 1, end), LAMBDA l : l.kind = "inet")
    IN  [i \in 1..Len(lines) |-> lines[i].addr]

\* C23: an interface header line opens an interface whose status is UP exactly
\* when its flag list contains the flag UP itself; a list without UP but with
\* another flag such as LOWER_UP is not reported as up.
C23_UpIffFlagUP ==
    Returned("parse") =>
        \A n \in DOMAIN unit.out :
            LET flags == unit.in.output[LastHeaderOf(unit.in.output, n)].flags
            IN  unit.out[n].status = "UP" <=> \E i \in 1..Len(flags) : flags[i] = "UP"

\* C24: the parser fails on no sequence of lines: it returns a table with one
\* interface per header name; lines that are no header and hold no address
\* are skipped, address lines before any header are dropped, and an
\* interface's address list holds, in input order, the addresses of exactly
\* the address lines that follow its header up to the next header.
C24_ScannerAttachesAddresses ==
    Returned("parse") =>
        LET t == unit.in.output
        IN  /\ DOMAIN unit.out = {t[h].name : h \in HeaderIdx(t)}
            /\ \A n \in DOMAIN unit.out :
                   /\ unit.out[n].name = n
                   /\ unit.out[n].addresses = BlockAddresses(t, LastHeaderOf(t, n))

\* an address before any header, then two interfaces, the address after the
\* second one
C24_Witness ==
    /\ Returned("parse")
    /\ unit.in.output = <<InetLine("1.1.1.1/32"),
                          HeaderLine("lo", <<"LOOPBACK", "UP", "LOWER_UP">>),
                          HeaderLine("eth0", <<"BROADCAST", "MULTICAST">>),
                          InetLine("172.20.0.2/24")>>
    /\ unit.out["lo"].addresses = <<>>
    /\ unit.out["eth0"].addresses = <<"172.20.0.2/24">>

C26_IntendedNeverGates ==
    Returned("compare") =>
        /\ \A other \in UnitIntended(unit.in.device_name) :
               LET r == compare_device_state(unit.in.device_name, other, unit.in.actual)
               IN  r.status = unit.out.status /\ r.checks = unit.out.checks
        /\ unit.in.actual.connection_status = "Connected" =>
               unit.out.intended_state = unit.in.intended

\* the declared ASN differs from the collected one and the result is Passed
C26_Witness ==
    /\ ComparedConnected
    /\ unit.in.intended.bgp_asn = "65001"
    /\ unit.in.actual.bgp_asn = "Unknown"
    /\ unit.in.intended.loopback_ip # unit.in.actual.loopback_ip
    /\ unit.out.status = "Passed"
    /\ unit.out.intended_state.bgp_asn = "65001"

\* monitor_device was applied to a device of the monitoring configuration
MonitoredKnown == Returned("monitor_device") /\ "overall_status" \in DOMAIN unit.out

\* C27: in the monitor a device is 'up' exactly when its container check is
\* 'running' and its docker-exec test 'success'; the exec test and the ping
\* test are 'skipped' exactly when the container is not running; and no
\* outcome of the address lookup and of the ping changes the overall status.
C27_DeviceUpIffRunningAndExec ==
    MonitoredKnown =>
        LET checks == unit.out.checks
            env == unit.in.env
            running == checks.container.status = "running"
        IN  /\ running <=> env.container = "listed"
            /\ checks.docker_exec.status = "success" <=>
                   (running /\ env.exec.kind = "exit" /\ env.exec.returncode = 0)
            /\ unit.out.overall_status \in {"up", "down"}
            /\ unit.out.overall_status = "up" <=>
                   (running /\ checks.docker_exec.status = "success")
            /\ checks.docker_exec.status = "skipped" <=> ~running
            /\ checks.ping.status = "skipped" <=> ~running
            /\ running => checks.ping.status \in {"up", "down", "error", "no_ip"}
            /\ \A a \in MonitorInspects(IndexOf(unit.in.device_name)), p \in MonitorPings :
                   monitor_device(MonitorMapping, unit.in.device_name,
                                  MonitorEnv(env.container, env.exec, a, p)).overall_status
                       = unit.out.overall_status

\* the container runs and answers docker exec, the ping fails: the device is up
C27_Witness ==
    /\ MonitoredKnown
    /\ unit.out.checks.container.status = "running"
    /\ unit.out.checks.docker_exec.status = "success"
    /\ unit.out.checks.ping.status = "down"
    /\ unit.out.overall_status = "up"

\* what the worker of d leaves in the store when it runs alone, None if it
\* leaves nothing
AloneResult(d) ==
    LET o == unit.in.outcome[d]
    IN  IF o.raises THEN None
        ELSE IF IsMonitor
             THEN (LET res == monitor_device(device_mapping, d, o.env)
                   IN  IF "overall_status" \in DOMAIN res THEN res ELSE None)
             ELSE ValidateDeviceResult(device_mapping, d, o.env)

\* the store of the run in which the workers run one after another
SequentialStore ==
    LET keys == {d \in Names : AloneResult(d) # None}
                    \cup (IF IsMonitor THEN {"infrastructure"} ELSE {})
    IN  [k \in keys |->
            IF k = "infrastructure"
            THEN monitor_infrastructure(unit.in.infrastructure.netbox,
                                        unit.in.infrastructure.system)
            ELSE AloneResult(k)]

\* C28: for fixed outcomes of the external calls, every interleaving of the
\* device workers ends with the same store, the one the workers leave when
\* they run one after another: the returned mapping from device name to
\* result does not depend on the order of scheduling or completion.
C28_StoreIndependentOfSchedule ==
    (unit.op = "run" /\ RunReturned) => (ret = SequentialStore /\ results = ret)

\* a validator run of three devices returned with three entries that differ:
\* the first device was collected, the collection of the last one failed
C28_Witness ==
    /\ unit.op = "run" /\ RunReturned /\ ~IsMonitor
    /\ Len(device_names) = 3
    /\ DOMAIN ret = Names
    /\ ret["Router-1"].checks.loopback_interface.status = "Up"
    /\ ret["Router-3"].checks.loopback_interface.status = "Not Found"

\* C29: when the run is invoked again on the same validator or monitor, the
\* store the later run returns holds only entries produced during that run:
\* every key of it is one a worker (or the infrastructure check) of the later
\* run wrote, so no entry of the earlier run survives for a device the later
\* run skips or drops.
C29_LaterRunReturnsOwnEntriesOnly ==
    (unit.op = "rerun" /\ RunReturned) => DOMAIN ret \subseteq DOMAIN SequentialStore

\* C30: the fact-sync workflow converges: after update_netbox_with_facts has
\* run for the differences found and every save succeeded, comparing the
\* updated inventory with the same device facts reports no differences, and
\* the devices absent from the difference map are left unchanged.
C30_SyncConverges ==
    (Returned("sync") /\ unit.in.save_ok) =>
        /\ unit.out.differences_after = EmptyDict
        /\ \A d \in DOMAIN unit.in.nb \ DOMAIN unit.out.differences :
               unit.out.nb_after[d] = unit.in.nb[d]

====
